---- MODULE Spec2Model ----
(***************************************************************************)
(* A model of the financial-projection and scoring code of the backend:    *)
(*   src/routes/portfolio.py    sip_calculator, calculate_investment_returns,*)
(*                              compare_investments                         *)
(*   src/routes/zones.py        calculate_roi_for_zone                      *)
(*   src/routes/investments.py  calculate_financial_health_score,           *)
(*                              generate_portfolio_recommendations,         *)
(*                              create_plan                                 *)
(*   src/routes/dashboard.py    calculate_portfolio_risk, get_risk_analysis *)
(*   src/routes/portfolio.py    rebalance_portfolio                         *)
(*                                                                         *)
(* Numbers.  The Python code computes in floats.  The model computes the   *)
(* same expressions exactly: percentages are kept as integers in tenths    *)
(* (or hundredths) of a percent, rational results as a signed fraction of  *)
(* two arbitrary-size naturals, and a value amount * (1 + r)^(months/12)   *)
(* symbolically, compared through its 12th power.  Arbitrary-size naturals *)
(* are little-endian digit sequences, because TLC's integers are 32 bits.  *)
(***************************************************************************)
EXTENDS Integers, Sequences, FiniteSets, TLC

----------------------------------------------------------------------------
(* Arbitrary-size naturals: <<d1, d2, ...>> is d1 + d2*BNBase + ...; the    *)
(* empty sequence is 0 and the last digit is never 0.                       *)

BNBase == 10 * 10 * 10

RECURSIVE BNOf(_)
BNOf(n) ==
    IF n = 0 THEN <<>> ELSE <<n % BNBase>> \o BNOf(n \div BNBase)

RECURSIVE BNStrip(_)
BNStrip(b) ==
    IF b = <<>> THEN <<>>
    ELSE IF b[Len(b)] = 0 THEN BNStrip(SubSeq(b, 1, Len(b) - 1))
    ELSE b

RECURSIVE BNMulCarry(_, _, _)
BNMulCarry(b, k, c) ==
    IF b = <<>> THEN BNOf(c)
    ELSE LET v == b[1] * k + c
         IN  <<v % BNBase>> \o BNMulCarry(Tail(b), k, v \div BNBase)

\* b * k for a natural k < 2 000 000
BNMulS(b, k) ==
    IF k = 0 THEN <<>> ELSE BNMulCarry(b, k, 0)

\* b * k^e
RECURSIVE BNMulPow(_, _, _)
BNMulPow(b, k, e) ==
    IF e = 0 \/ b = <<>> THEN b ELSE BNMulPow(BNMulS(b, k), k, e - 1)

RECURSIVE BNAddCarry(_, _, _)
BNAddCarry(a, b, c) ==
    IF a = <<>> /\ b = <<>> THEN BNOf(c)
    ELSE LET x == IF a = <<>> THEN 0 ELSE a[1]
             y == IF b = <<>> THEN 0 ELSE b[1]
             v == x + y + c
         IN  <<v % BNBase>> \o
             BNAddCarry(IF a = <<>> THEN <<>> ELSE Tail(a),
                        IF b = <<>> THEN <<>> ELSE Tail(b),
                        v \div BNBase)

BNAdd(a, b) ==
    BNAddCarry(a, b, 0)

RECURSIVE BNSubBorrow(_, _, _)
BNSubBorrow(a, b, c) ==
    IF a = <<>> THEN <<>>
    ELSE LET y == IF b = <<>> THEN 0 ELSE b[1]
             v == a[1] - y - c
         IN  <<IF v < 0 THEN v + BNBase ELSE v>> \o
             BNSubBorrow(Tail(a),
                         IF b = <<>> THEN <<>> ELSE Tail(b),
                         IF v < 0 THEN 1 ELSE 0)

RECURSIVE BNLessFrom(_, _, _)
BNLessFrom(a, b, i) ==
    IF i = 0 THEN FALSE
    ELSE IF a[i] # b[i] THEN a[i] < b[i]
    ELSE BNLessFrom(a, b, i - 1)

BNLess(a, b) ==
    IF Len(a) # Len(b) THEN Len(a) < Len(b) ELSE BNLessFrom(a, b, Len(a))

BNLeq(a, b) ==
    ~BNLess(b, a)

\* a - b, for b <= a
BNSub(a, b) ==
    BNStrip(BNSubBorrow(a, b, 0))

\* a * b, by the digits of b from the highest down; acc = a * b[i+1 ..]
RECURSIVE BNMulAcc(_, _, _, _)
BNMulAcc(a, b, i, acc) ==
    IF i = 0 \/ Len(acc) < 0 THEN acc
    ELSE BNMulAcc(a, b, i - 1,
                  BNAdd(BNMulS(a, b[i]),
                        IF acc = <<>> THEN <<>> ELSE <<0>> \o acc))

BNMul(a, b) ==
    IF Len(a) < Len(b) THEN BNMulAcc(b, a, Len(a), <<>>)
    ELSE BNMulAcc(a, b, Len(b), <<>>)

\* floor(p / q) for q # 0, when the quotient is below 2 000 000
RECURSIVE BNDivHi(_, _, _)
BNDivHi(p, q, h) ==
    IF BNLess(p, BNMulS(q, h)) THEN h ELSE BNDivHi(p, q, 2 * h)

RECURSIVE BNDivBisect(_, _, _, _)
BNDivBisect(p, q, lo, hi) ==
    IF hi - lo = 1 THEN lo
    ELSE LET mid == (lo + hi) \div 2
         IN  IF BNLeq(BNMulS(q, mid), p)
             THEN BNDivBisect(p, q, mid, hi)
             ELSE BNDivBisect(p, q, lo, mid)

BNDiv(p, q) ==
    BNDivBisect(p, q, 0, BNDivHi(p, q, 1))

----------------------------------------------------------------------------
(* Signed rationals: [neg, num, den] is (neg ? -1 : 1) * num / den, with   *)
(* den # 0 and neg = FALSE when num = 0.                                    *)

Abs(n) ==
    IF n < 0 THEN -n ELSE n

Rat(neg, num, den) ==
    [neg |-> neg /\ num # <<>>, num |-> num, den |-> den]

RatOfInt(n) ==
    Rat(n < 0, BNOf(Abs(n)), BNOf(1))

RatSign(x) ==
    IF x.num = <<>> THEN 0 ELSE IF x.neg THEN -1 ELSE 1

RatNeg(x) ==
    Rat(~x.neg, x.num, x.den)

RatAdd(x, y) ==
    LET a == BNMul(x.num, y.den)
        b == BNMul(y.num, x.den)
        d == BNMul(x.den, y.den)
    IN  IF x.neg = y.neg THEN Rat(x.neg, BNAdd(a, b), d)
        ELSE IF BNLeq(b, a) THEN Rat(x.neg, BNSub(a, b), d)
        ELSE Rat(y.neg, BNSub(b, a), d)

RatSub(x, y) ==
    RatAdd(x, RatNeg(y))

RatMul(x, y) ==
    Rat(x.neg # y.neg, BNMul(x.num, y.num), BNMul(x.den, y.den))

\* x / y, for y # 0
RatDiv(x, y) ==
    Rat(x.neg # y.neg, BNMul(x.num, y.den), BNMul(x.den, y.num))

RatLess(x, y) ==
    LET sx == RatSign(x)
        sy == RatSign(y)
    IN  IF sx # sy THEN sx < sy
        ELSE IF sx = 0 THEN FALSE
        ELSE IF sx > 0 THEN BNLess(BNMul(x.num, y.den), BNMul(y.num, x.den))
        ELSE BNLess(BNMul(y.num, x.den), BNMul(x.num, y.den))

RatLeq(x, y) ==
    ~RatLess(y, x)

RatEq(x, y) ==
    ~RatLess(x, y) /\ ~RatLess(y, x)

RECURSIVE Gcd(_, _)
Gcd(m, n) ==
    IF n = 0 THEN m ELSE Gcd(n, m % n)

\* p / q in lowest terms, for an integer p and a natural q # 0
RatFrac(p, q) ==
    LET g == Gcd(Abs(p), q)
    IN  Rat(p < 0, BNOf(Abs(p) \div g), BNOf(q \div g))

\* (n / d)^e for naturals n, d # 0 and an integer e; a negative e inverts
RatPow(n, d, e) ==
    LET g == Gcd(n, d)
    IN  IF e >= 0
        THEN Rat(FALSE, BNMulPow(BNOf(1), n \div g, e), BNMulPow(BNOf(1), d \div g, e))
        ELSE Rat(FALSE, BNMulPow(BNOf(1), d \div g, -e), BNMulPow(BNOf(1), n \div g, -e))

\* round(x * 10^2) to the nearest integer: Python's round(x, 2), in hundredths
RatRound2(x) ==
    LET q == BNDiv(BNAdd(BNMulS(x.num, 200), x.den), BNMulS(x.den, 2))
    IN  IF x.neg THEN -q ELSE q

(* A value amt * (num / den)^(months / 12), the shape of every compounded  *)
(* amount of calculate_investment_returns (years = horizon_months / 12 is  *)
(* fractional).  num and den are positive, so the sign is the sign of amt. *)
(* Two such values are compared through their (12 / g)-th powers, which are*)
(* rational when g divides 12 and both exponents.                          *)

GV(amt, num, den, months) ==
    [amt |-> amt, num |-> num, den |-> den, months |-> months]

GSign(x) ==
    IF x.amt = 0 THEN 0 ELSE IF x.amt < 0 THEN -1 ELSE 1

\* |x|^(12 / g), for g dividing 12 and x.months
GPow(x, g) ==
    RatMul(Rat(FALSE, BNMulPow(BNOf(1), Abs(x.amt), 12 \div g), BNOf(1)),
           RatPow(x.num, x.den, x.months \div g))

GLess(x, y) ==
    LET sx == GSign(x)
        sy == GSign(y)
        g == Gcd(Gcd(12, Abs(x.months)), Abs(y.months))
    IN  IF sx # sy THEN sx < sy
        ELSE IF sx = 0 THEN FALSE
        ELSE IF sx > 0 THEN RatLess(GPow(x, g), GPow(y, g))
        ELSE RatLess(GPow(y, g), GPow(x, g))

GLeq(x, y) ==
    ~GLess(y, x)

----------------------------------------------------------------------------
(* Optional values: None is <<>>, a present value v is <<v>>.              *)

None == <<>>

Some(v) == <<v>>

IsNone(o) == o = <<>>

\* Python truthiness of an optional integer: None and 0 are false
Truthy(o) ==
    o # <<>> /\ o[1] # 0

----------------------------------------------------------------------------
(* State: one request.  op names the operation called, req holds its     *)
(* arguments, pc is "called" until the operation has run and "returned"    *)
(* after, and resp is then its result.                                     *)

VARIABLES pc, op, req, resp

vars == <<pc, op, req, resp>>

Called(name) ==
    pc = "called" /\ op = name

Returned(name) ==
    pc = "returned" /\ op = name

Return(result) ==
    /\ pc' = "returned"
    /\ resp' = result
    /\ UNCHANGED <<op, req>>

----------------------------------------------------------------------------
(* POST /portfolio/sip-calculator                                          *)

MaxSip == 3
MaxYears == 3
MaxRateSteps == 3

\* request values: monthly_sip, annual_return (percent), time_period (years)
SipAmounts == {500 * k : k \in -1..MaxSip}
AnnualReturns == {6 * k : k \in -1..MaxRateSteps}
TimePeriods == 0..MaxYears

\* monthly_sip * (((1 + monthly_return) ** months - 1) / monthly_return)
\*             * (1 + monthly_return), monthly_return = annual_return / 12 / 100
SipAnnuity(monthly_sip, annual_return, months) ==
    LET monthly_return == RatFrac(annual_return, 1200)
        onePlus == RatFrac(1200 + annual_return, 1200)
        growth == RatPow(1200 + annual_return, 1200, months)
    IN  RatMul(RatMul(RatOfInt(monthly_sip),
                      RatDiv(RatSub(growth, RatOfInt(1)), monthly_return)),
               onePlus)

\* faulty variant: the zero-rate branch counts years for months
sip_future_value_years(monthly_sip, annual_return, time_period) ==
    IF annual_return > 0
    THEN SipAnnuity(monthly_sip, annual_return, time_period * 12)
    ELSE RatOfInt(monthly_sip * time_period)

sip_future_value(monthly_sip, annual_return, time_period) ==
    IF annual_return > 0
    THEN SipAnnuity(monthly_sip, annual_return, time_period * 12)
    ELSE RatOfInt(monthly_sip * (time_period * 12))

lump_sum_future_value(lump_sum_amount, annual_return, time_period) ==
    RatMul(RatOfInt(lump_sum_amount), RatPow(100 + annual_return, 100, time_period))

\* faulty variant: the loop stops one year short
RECURSIVE yearly_breakdown_short(_, _, _, _, _)
yearly_breakdown_short(monthly_sip, annual_return, time_period, year, invested_before) ==
    IF year >= time_period THEN <<>>
    ELSE LET invested_so_far == invested_before + monthly_sip * 12
             current_value ==
                 IF annual_return > 0
                 THEN SipAnnuity(monthly_sip, annual_return, year * 12)
                 ELSE RatOfInt(invested_so_far)
         IN  <<[year |-> year,
                invested |-> invested_so_far,
                value |-> current_value,
                returns |-> RatSub(current_value, RatOfInt(invested_so_far))]>>
             \o yearly_breakdown_short(monthly_sip, annual_return, time_period,
                                       year + 1, invested_so_far)

RECURSIVE yearly_breakdown(_, _, _, _, _)
yearly_breakdown(monthly_sip, annual_return, time_period, year, invested_before) ==
    IF year > time_period THEN <<>>
    ELSE LET invested_so_far == invested_before + monthly_sip * 12
             current_value ==
                 IF annual_return > 0
                 THEN SipAnnuity(monthly_sip, annual_return, year * 12)
                 ELSE RatOfInt(invested_so_far)
         IN  <<[year |-> year,
                invested |-> invested_so_far,
                value |-> current_value,
                returns |-> RatSub(current_value, RatOfInt(invested_so_far))]>>
             \o yearly_breakdown(monthly_sip, annual_return, time_period,
                                 year + 1, invested_so_far)

\* faulty variant: the comparison made non-strict
sip_recommendation_nonstrict(sip_fv, lump_fv) ==
    IF RatLeq(lump_fv, sip_fv) THEN "SIP" ELSE "Lump Sum"

sip_recommendation(sip_fv, lump_fv) ==
    IF RatLess(lump_fv, sip_fv) THEN "SIP" ELSE "Lump Sum"

sip_result(monthly_sip, annual_return, time_period) ==
    LET total_months == time_period * 12
        sip_fv == sip_future_value(monthly_sip, annual_return, time_period)
        total_invested == monthly_sip * total_months
        sip_returns == RatSub(sip_fv, RatOfInt(total_invested))
        lump_sum_amount == total_invested
        lump_fv == lump_sum_future_value(lump_sum_amount, annual_return, time_period)
        lump_sum_returns == RatSub(lump_fv, RatOfInt(lump_sum_amount))
    IN  [status |-> 200,
         sip_details |->
            [monthly_sip |-> monthly_sip,
             annual_return |-> annual_return,
             time_period |-> time_period,
             total_invested |-> total_invested,
             future_value |-> sip_fv,
             total_returns |-> sip_returns,
             roi_percentage |->
                IF total_invested > 0
                THEN RatMul(RatDiv(sip_returns, RatOfInt(total_invested)),
                            RatOfInt(100))
                ELSE RatOfInt(0)],
         lump_sum_comparison |->
            [amount |-> lump_sum_amount,
             future_value |-> lump_fv,
             total_returns |-> lump_sum_returns,
             roi_percentage |->
                IF lump_sum_amount > 0
                THEN RatMul(RatDiv(lump_sum_returns, RatOfInt(lump_sum_amount)),
                            RatOfInt(100))
                ELSE RatOfInt(0)],
         yearly_breakdown |->
            yearly_breakdown(monthly_sip, annual_return, time_period, 1, 0),
         recommendation |-> sip_recommendation(sip_fv, lump_fv)]

SipRequests ==
    [monthly_sip : SipAmounts, annual_return : AnnualReturns,
     time_period : TimePeriods]

sip_calculator ==
    /\ Called("sip_calculator")
    /\ Return(sip_result(req.monthly_sip, req.annual_return, req.time_period))

----------------------------------------------------------------------------
(* calculate_investment_returns (portfolio.py).  Rates are in tenths of a  *)
(* percent: 12.0 is 120, 6.5 is 65, 2.0 is 20.                              *)

MaxAmount == 2
MaxHorizon == 8

Amounts == {500 * k : k \in -1..MaxAmount}
Horizons == {3 * k : k \in -1..MaxHorizon}
Outlooks == {"HIGH", "MODERATE", "LOW"}
Confidences == {"HIGH", "MEDIUM", "LOW"}
Zones == [outlook : Outlooks, confidence : Confidences]
OptZones == {None} \cup {Some(z) : z \in Zones}

return_rates ==
    [real_estate |-> 120, sip |-> 120, stocks |-> 150,
     fixed_deposit |-> 65, gold |-> 80, ppf |-> 71]

risk_levels ==
    [real_estate |-> "MEDIUM", sip |-> "MEDIUM", stocks |-> "HIGH",
     fixed_deposit |-> "LOW", gold |-> "LOW", ppf |-> "LOW"]

liquidity ==
    [real_estate |-> "LOW", sip |-> "MEDIUM", stocks |-> "HIGH",
     fixed_deposit |-> "LOW", gold |-> "HIGH", ppf |-> "LOW"]

\* the types a caller may pass: the table's keys and two it does not hold
InvestmentTypes == DOMAIN return_rates \cup {"bonds", "index_funds"}

\* table.get(key, default)
DictGet(table, key, default) ==
    IF key \in DOMAIN table THEN table[key] ELSE default

\* investment_type.replace('_', ' ').title()
display_name(investment_type) ==
    CASE investment_type = "real_estate" -> "Real Estate"
      [] investment_type = "sip" -> "Sip"
      [] investment_type = "stocks" -> "Stocks"
      [] investment_type = "fixed_deposit" -> "Fixed Deposit"
      [] investment_type = "gold" -> "Gold"
      [] investment_type = "ppf" -> "Ppf"
      [] investment_type = "bonds" -> "Bonds"
      [] investment_type = "index_funds" -> "Index Funds"

Max(a, b) ==
    IF a >= b THEN a ELSE b

\* faulty variant: the fallback rate of zones.py (8) in place of 10.0
resolve_base_rate_default8(investment_type, zone) ==
    LET base_rate == DictGet(return_rates, investment_type, 80)
    IN  IF investment_type = "real_estate" /\ zone # None
        THEN IF zone[1].outlook = "HIGH" THEN base_rate + 20
             ELSE IF zone[1].outlook = "LOW" THEN base_rate - 20
             ELSE base_rate
        ELSE base_rate

\* faulty variant: the zone's confidence multiplier applied to the adjusted rate
resolve_base_rate_confidence(investment_type, zone) ==
    LET base_rate == DictGet(return_rates, investment_type, 100)
        multiplier == [HIGH |-> 10, MEDIUM |-> 9, LOW |-> 8]
    IN  IF investment_type = "real_estate" /\ zone # None
        THEN ((IF zone[1].outlook = "HIGH" THEN base_rate + 20
               ELSE IF zone[1].outlook = "LOW" THEN base_rate - 20
               ELSE base_rate) * multiplier[zone[1].confidence]) \div 10
        ELSE base_rate

\* faulty variant: the outlook adjustment made for every investment type
resolve_base_rate_any_type(investment_type, zone) ==
    LET base_rate == DictGet(return_rates, investment_type, 100)
    IN  IF zone # None
        THEN IF zone[1].outlook = "HIGH" THEN base_rate + 20
             ELSE IF zone[1].outlook = "LOW" THEN base_rate - 20
             ELSE base_rate
        ELSE base_rate

\* base_rate after the zone adjustment (lines 453-460)
resolve_base_rate(investment_type, zone) ==
    LET base_rate == DictGet(return_rates, investment_type, 100)
    IN  IF investment_type = "real_estate" /\ zone # None
        THEN IF zone[1].outlook = "HIGH" THEN base_rate + 20
             ELSE IF zone[1].outlook = "LOW" THEN base_rate - 20
             ELSE base_rate
        ELSE base_rate

optimistic_rate(base_rate) ==
    base_rate + 30

\* faulty variant: the sign of the stress offset slipped
pessimistic_rate_plus(base_rate) ==
    Max(base_rate + 30, 10)

pessimistic_rate(base_rate) ==
    Max(base_rate - 30, 10)

\* amount * ((1 + rate / 100) ** (horizon_months / 12))
\* faulty variant: the growth factor is not applied to the amount
compound_factor_only(amount, rate, horizon_months) ==
    GV(1, 1000 + rate, 1000, horizon_months)

compound(amount, rate, horizon_months) ==
    GV(amount, 1000 + rate, 1000, horizon_months)

\* future_value - amount, kept as its two terms
Returns(future_value, amount) ==
    [future_value |-> future_value, amount |-> amount]

\* ((future_value - amount) / amount) * 100, kept as its terms; amount # 0
Roi(future_value, amount) ==
    [future_value |-> future_value, amount |-> amount]

\* roi_percentage is (g - 1) * 100 for the growth g = future_value / amount,
\* so two of them compare as their growths do
RoiGrowth(roi) ==
    GV(1, roi.future_value.num, roi.future_value.den, roi.future_value.months)

RoiLess(x, y) ==
    GLess(RoiGrowth(x), RoiGrowth(y))

calculate_investment_returns(investment_type, amount, horizon_months, zone) ==
    LET base_rate == resolve_base_rate(investment_type, zone)
        future_value == compound(amount, base_rate, horizon_months)
        optimistic_value ==
            compound(amount, optimistic_rate(base_rate), horizon_months)
        pessimistic_value ==
            compound(amount, pessimistic_rate(base_rate), horizon_months)
    IN  IF amount = 0
        THEN \* roi_percentage = (total_returns / amount) * 100
             [raised |-> "ZeroDivisionError"]
        ELSE [raised |-> "None",
              investment_type |-> investment_type,
              display_name |-> display_name(investment_type),
              amount |-> amount,
              horizon_months |-> horizon_months,
              annual_return_rate |-> base_rate,
              future_value |-> future_value,
              total_returns |-> Returns(future_value, amount),
              roi_percentage |-> Roi(future_value, amount),
              risk_level |-> DictGet(risk_levels, investment_type, "MEDIUM"),
              liquidity |-> DictGet(liquidity, investment_type, "MEDIUM"),
              stress_scenarios |->
                 [optimistic |->
                     [rate |-> optimistic_rate(base_rate),
                      future_value |-> optimistic_value,
                      roi_percentage |-> Roi(optimistic_value, amount)],
                  pessimistic |->
                     [rate |-> pessimistic_rate(base_rate),
                      future_value |-> pessimistic_value,
                      roi_percentage |-> Roi(pessimistic_value, amount)]],
              zone_info |-> zone]

ReturnsRequests ==
    [investment_type : InvestmentTypes, amount : Amounts,
     horizon_months : Horizons, zone : OptZones]

\* a call of calculate_investment_returns with arguments of the caller's choice
call_calculate_investment_returns ==
    /\ Called("calculate_investment_returns")
    /\ Return(calculate_investment_returns(req.investment_type, req.amount,
                                           req.horizon_months, req.zone))

----------------------------------------------------------------------------
(* POST /portfolio/compare                                                 *)

RiskProfiles == {"CONSERVATIVE", "MODERATE", "GROWTH", "UNKNOWN"}

\* comparisons.sort(key=roi_percentage, reverse=True): stable, so x goes
\* behind every element whose roi is not less than its own
\* faulty variant: the comparisons stay in the order they were appended
InsertByRoi_appended(x, sorted) ==
    Append(sorted, x)

RECURSIVE InsertByRoi(_, _)
InsertByRoi(x, sorted) ==
    IF sorted = <<>> THEN <<x>>
    ELSE IF RoiLess(sorted[1].roi_percentage, x.roi_percentage)
    THEN <<x>> \o sorted
    ELSE <<sorted[1]>> \o InsertByRoi(x, Tail(sorted))

RECURSIVE SortByRoi(_, _, _)
SortByRoi(comparisons, i, sorted) ==
    IF i > Len(comparisons) THEN sorted
    ELSE SortByRoi(comparisons, i + 1, InsertByRoi(comparisons[i], sorted))

\* faulty variant: the CONSERVATIVE profile keeps every risk level
Suitable_any_level(comp, risk_profile) ==
    \/ risk_profile = "CONSERVATIVE"
    \/ risk_profile = "MODERATE"
    \/ risk_profile = "GROWTH" /\ comp.risk_level \in {"MEDIUM", "HIGH"}

Suitable(comp, risk_profile) ==
    \/ risk_profile = "CONSERVATIVE" /\ comp.risk_level \in {"LOW", "MEDIUM"}
    \/ risk_profile = "MODERATE"
    \/ risk_profile = "GROWTH" /\ comp.risk_level \in {"MEDIUM", "HIGH"}

generate_investment_recommendations(comparisons, risk_profile, time_horizon, amount) ==
    LET IsSuitable(comp) == Suitable(comp, risk_profile)
        filtered == SelectSeq(comparisons, IsSuitable)
        suitable_investments == IF filtered = <<>> THEN comparisons ELSE filtered
        top3 == SubSeq(suitable_investments, 1,
                       IF Len(suitable_investments) < 3
                       THEN Len(suitable_investments) ELSE 3)
        IsLongTerm(comp) == comp.investment_type \in {"real_estate", "sip", "stocks"}
        long_term_options == SelectSeq(suitable_investments, IsLongTerm)
    IN  (IF suitable_investments # <<>>
         THEN <<[type |-> "TOP_PERFORMER",
                 investment_type |-> suitable_investments[1].investment_type,
                 risk_level |-> suitable_investments[1].risk_level]>>
         ELSE <<>>)
        \o
        (IF Len(suitable_investments) >= 2
         THEN <<[type |-> "BALANCED",
                 allocation |->
                    [t \in {top3[i].investment_type : i \in 1..Len(top3)} |->
                        100 \div Len(top3)]]>>
         ELSE <<>>)
        \o
        (IF time_horizon >= 60 /\ long_term_options # <<>>
         THEN <<[type |-> "LONG_TERM",
                 investment_type |-> long_term_options[1].investment_type]>>
         ELSE <<>>)

compare_investments_result(amount, horizon_months, risk_profile, zone) ==
    LET types == (IF zone # None THEN <<"real_estate">> ELSE <<>>)
                 \o <<"sip", "stocks", "fixed_deposit", "gold", "ppf">>
        results ==
            [i \in 1..Len(types) |->
                calculate_investment_returns(
                    types[i], amount, horizon_months,
                    IF types[i] = "real_estate" THEN zone ELSE None)]
    IN  IF \E i \in 1..Len(types) : results[i].raised # "None"
        THEN [status |-> 500, success |-> FALSE,
              error |-> results[1].raised]
        ELSE LET comparisons == SortByRoi(results, 1, <<>>)
             IN  [status |-> 200, success |-> TRUE,
                  comparisons |-> comparisons,
                  recommendations |->
                     generate_investment_recommendations(
                         comparisons, risk_profile, horizon_months, amount)]

CompareRequests ==
    [amount : Amounts, horizon_months : Horizons \cup {60},
     risk_profile : RiskProfiles, zone : OptZones]

compare_investments ==
    /\ Called("compare_investments")
    /\ Return(compare_investments_result(req.amount, req.horizon_months,
                                         req.risk_profile, req.zone))

----------------------------------------------------------------------------
(* GET /zones/<zone_id>/roi and calculate_roi_for_zone (zones.py).  The    *)
(* table's rates are whole percents, the confidence multipliers tenths, so *)
(* adjusted_rate is in tenths of a percent and the stress rates, adjusted  *)
(* by 1.2 and 0.7, in hundredths.  Rounded results are in hundredths.      *)

base_rates ==
    [HIGH |-> [real_estate |-> 12, stocks |-> 15, sip |-> 12, bonds |-> 7],
     MODERATE |-> [real_estate |-> 8, stocks |-> 12, sip |-> 10, bonds |-> 6],
     LOW |-> [real_estate |-> 5, stocks |-> 8, sip |-> 8, bonds |-> 5]]

confidence_multipliers ==
    [HIGH |-> 10, MEDIUM |-> 9, LOW |-> 8]

\* base_rate * confidence_multiplier, in tenths of a percent
adjusted_rate(zone, investment_type) ==
    DictGet(DictGet(base_rates, zone.outlook, base_rates["MODERATE"]),
            investment_type, 8)
    * DictGet(confidence_multipliers, zone.confidence, 9)

\* the stress rates, in hundredths of a percent
zone_optimistic_rate(adjusted) ==
    adjusted * 12

zone_pessimistic_rate(adjusted) ==
    adjusted * 7

\* investment_amount * ((1 + rate / 100 / 12) ** time_horizon),
\* for a rate in hundredths of a percent
monthly_compound(investment_amount, rate, time_horizon) ==
    RatMul(RatOfInt(investment_amount),
           RatPow(120000 + rate, 120000, time_horizon))

\* round(((future_value - amount) / amount) * 100, 2), for amount # 0
rounded_roi(future_value, investment_amount) ==
    RatRound2(RatMul(RatDiv(RatSub(future_value, RatOfInt(investment_amount)),
                            RatOfInt(investment_amount)),
                     RatOfInt(100)))

calculate_roi_for_zone(zone, investment_amount, investment_type, time_horizon) ==
    LET adjusted == adjusted_rate(zone, investment_type)
        future_value ==
            monthly_compound(investment_amount, adjusted * 10, time_horizon)
        total_returns == RatSub(future_value, RatOfInt(investment_amount))
        optimistic_value ==
            monthly_compound(investment_amount, zone_optimistic_rate(adjusted),
                             time_horizon)
        pessimistic_value ==
            monthly_compound(investment_amount, zone_pessimistic_rate(adjusted),
                             time_horizon)
    IN  IF investment_amount = 0
        THEN \* roi_percentage = (total_returns / investment_amount) * 100
             [raised |-> "ZeroDivisionError"]
        ELSE [raised |-> "None",
              investment_amount |-> investment_amount,
              investment_type |-> investment_type,
              time_horizon_months |-> time_horizon,
              base_rate_percent |-> adjusted * 10,
              future_value |-> RatRound2(future_value),
              total_returns |-> RatRound2(total_returns),
              roi_percentage |-> rounded_roi(future_value, investment_amount),
              stress_scenarios |->
                 [optimistic |->
                     [rate_percent |-> zone_optimistic_rate(adjusted),
                      future_value |-> RatRound2(optimistic_value),
                      roi_percentage |->
                         rounded_roi(optimistic_value, investment_amount)],
                  pessimistic |->
                     [rate_percent |-> zone_pessimistic_rate(adjusted),
                      future_value |-> RatRound2(pessimistic_value),
                      roi_percentage |->
                         rounded_roi(pessimistic_value, investment_amount)]]]

ZoneTypes == {"real_estate", "stocks", "sip", "bonds", "gold"}

ZoneRoiRequests ==
    [zone : OptZones, amount : Amounts, type : ZoneTypes, horizon : Horizons]

calculate_zone_roi ==
    /\ Called("calculate_zone_roi")
    /\ Return(IF req.zone = None
              THEN \* get_or_404 raises inside the try block
                   [status |-> 500, success |-> FALSE, error |-> "NotFound"]
              ELSE LET roi_data == calculate_roi_for_zone(
                                       req.zone[1], req.amount, req.type,
                                       req.horizon)
                   IN  IF roi_data.raised # "None"
                       THEN [status |-> 500, success |-> FALSE,
                             error |-> roi_data.raised]
                       ELSE [status |-> 200, success |-> TRUE,
                             data |-> roi_data])

----------------------------------------------------------------------------
(* GET /health-score/<user_id> and calculate_financial_health_score         *)
(* (investments.py).  A user is [monthly_income, monthly_expenses], an asset*)
(* snapshot a record of the six buckets and liabilities; each of these     *)
(* columns is nullable, so each value is optional.                          *)

MaxGoals == 3

Buckets == {"savings", "mf", "stocks", "gold", "epf", "real_estate"}

Incomes == {None, Some(0), Some(24999), Some(30000), Some(50000), Some(100000)}
Expenses == {None, Some(0), Some(15000), Some(21000), Some(27000), Some(30000)}
Liabilities == {None, Some(0), Some(5000), Some(10000), Some(15000), Some(100000)}

Users == [monthly_income : Incomes, monthly_expenses : Expenses]

\* bucket values: every split of the six buckets into empty and held ones,
\* and one bucket null beside five equal ones
BucketValues ==
    {[b \in Buckets |-> IF b \in held THEN Some(1000) ELSE Some(0)] :
        held \in SUBSET Buckets}
    \cup
    {[b \in Buckets |-> IF b = null THEN None ELSE Some(v)] :
        null \in Buckets, v \in {0, 1000}}

Snapshot(buckets, liabilities) ==
    [savings |-> buckets["savings"], mf |-> buckets["mf"],
     stocks |-> buckets["stocks"], gold |-> buckets["gold"],
     epf |-> buckets["epf"], real_estate |-> buckets["real_estate"],
     liabilities |-> liabilities]

Snapshots == {Snapshot(b, l) : b \in BucketValues, l \in Liabilities}

OptSnapshots == {None} \cup {Some(a) : a \in Snapshots}

\* a dict with at most the one entry key: value
Entry(present, key, value) ==
    IF present THEN [k \in {key} |-> value] ELSE <<>>

\* n / d <= t / 10, for d # 0
RatioLeq(n, d, t) ==
    IF d > 0 THEN 10 * n <= t * d ELSE 10 * n >= t * d

\* Income factor (20 points): [points, rated, rating]
income_factor(user) ==
    IF Truthy(user.monthly_income)
    THEN LET income == user.monthly_income[1]
         IN  IF income >= 100000 THEN [points |-> 20, rated |-> TRUE, rating |-> "Excellent"]
             ELSE IF income >= 50000 THEN [points |-> 15, rated |-> TRUE, rating |-> "Good"]
             ELSE IF income >= 25000 THEN [points |-> 10, rated |-> TRUE, rating |-> "Average"]
             ELSE [points |-> 5, rated |-> TRUE, rating |-> "Below Average"]
    ELSE [points |-> 0, rated |-> FALSE, rating |-> ""]

\* Expense ratio factor (20 points)
expense_factor(user) ==
    IF Truthy(user.monthly_income) /\ Truthy(user.monthly_expenses)
    THEN LET income == user.monthly_income[1]
             expenses == user.monthly_expenses[1]
         IN  IF RatioLeq(expenses, income, 5) THEN [points |-> 20, rated |-> TRUE, rating |-> "Excellent"]
             ELSE IF RatioLeq(expenses, income, 7) THEN [points |-> 15, rated |-> TRUE, rating |-> "Good"]
             ELSE IF RatioLeq(expenses, income, 9) THEN [points |-> 10, rated |-> TRUE, rating |-> "Average"]
             ELSE [points |-> 5, rated |-> TRUE, rating |-> "Poor"]
    ELSE [points |-> 0, rated |-> FALSE, rating |-> ""]

\* the number of buckets of a snapshot that hold more than 0
RECURSIVE CountHeld(_, _)
CountHeld(snapshot, names) ==
    IF names = {} THEN 0
    ELSE LET b == CHOOSE x \in names : TRUE
         IN  (IF snapshot[b][1] > 0 THEN 1 ELSE 0) + CountHeld(snapshot, names \ {b})

RECURSIVE SumBuckets(_, _)
SumBuckets(snapshot, names) ==
    IF names = {} THEN 0
    ELSE LET b == CHOOSE x \in names : TRUE
         IN  snapshot[b][1] + SumBuckets(snapshot, names \ {b})

\* faulty variant: the step also rates a snapshot whose buckets are all 0
diversification_factor_unguarded(asset_snapshot) ==
    IF asset_snapshot # None
    THEN LET asset_types == CountHeld(asset_snapshot[1], Buckets)
         IN  IF asset_types >= 4 THEN [points |-> 30, rated |-> TRUE, rating |-> "Excellent"]
             ELSE IF asset_types >= 3 THEN [points |-> 20, rated |-> TRUE, rating |-> "Good"]
             ELSE IF asset_types >= 2 THEN [points |-> 15, rated |-> TRUE, rating |-> "Average"]
             ELSE [points |-> 10, rated |-> TRUE, rating |-> "Poor"]
    ELSE [points |-> 0, rated |-> FALSE, rating |-> ""]

\* Asset diversification factor (30 points), for a snapshot without nulls
diversification_factor(asset_snapshot) ==
    IF asset_snapshot # None /\ SumBuckets(asset_snapshot[1], Buckets) > 0
    THEN LET asset_types == CountHeld(asset_snapshot[1], Buckets)
         IN  IF asset_types >= 4 THEN [points |-> 30, rated |-> TRUE, rating |-> "Excellent"]
             ELSE IF asset_types >= 3 THEN [points |-> 20, rated |-> TRUE, rating |-> "Good"]
             ELSE IF asset_types >= 2 THEN [points |-> 15, rated |-> TRUE, rating |-> "Average"]
             ELSE [points |-> 10, rated |-> TRUE, rating |-> "Poor"]
    ELSE [points |-> 0, rated |-> FALSE, rating |-> ""]

\* debt_to_income = (asset_snapshot.liabilities * 12) / user.monthly_income
debt_to_income_leq(liabilities, monthly_income, bound) ==
    RatioLeq(liabilities * 12, monthly_income, 10 * bound)

\* faulty variant: a poor debt ratio taken off the score
debt_factor_penalty(user, asset_snapshot) ==
    IF asset_snapshot # None /\ Truthy(asset_snapshot[1].liabilities)
    THEN IF Truthy(user.monthly_income)
         THEN LET liabilities == asset_snapshot[1].liabilities[1]
                  income == user.monthly_income[1]
              IN  IF debt_to_income_leq(liabilities, income, 2) THEN [points |-> 20, rated |-> TRUE, rating |-> "Excellent"]
                  ELSE IF debt_to_income_leq(liabilities, income, 4) THEN [points |-> 15, rated |-> TRUE, rating |-> "Good"]
                  ELSE IF debt_to_income_leq(liabilities, income, 6) THEN [points |-> 10, rated |-> TRUE, rating |-> "Average"]
                  ELSE [points |-> -20, rated |-> TRUE, rating |-> "Poor"]
         ELSE [points |-> 0, rated |-> FALSE, rating |-> ""]
    ELSE [points |-> 20, rated |-> TRUE, rating |-> "Excellent"]

\* faulty variant: the maximum given as well when liabilities meet no income
debt_factor_income_default(user, asset_snapshot) ==
    IF asset_snapshot # None /\ Truthy(asset_snapshot[1].liabilities)
          /\ Truthy(user.monthly_income)
    THEN LET liabilities == asset_snapshot[1].liabilities[1]
             income == user.monthly_income[1]
         IN  IF debt_to_income_leq(liabilities, income, 2) THEN [points |-> 20, rated |-> TRUE, rating |-> "Excellent"]
             ELSE IF debt_to_income_leq(liabilities, income, 4) THEN [points |-> 15, rated |-> TRUE, rating |-> "Good"]
             ELSE IF debt_to_income_leq(liabilities, income, 6) THEN [points |-> 10, rated |-> TRUE, rating |-> "Average"]
             ELSE [points |-> 5, rated |-> TRUE, rating |-> "Poor"]
    ELSE [points |-> 20, rated |-> TRUE, rating |-> "Excellent"]

\* Debt factor (20 points)
debt_factor(user, asset_snapshot) ==
    IF asset_snapshot # None /\ Truthy(asset_snapshot[1].liabilities)
    THEN IF Truthy(user.monthly_income)
         THEN LET liabilities == asset_snapshot[1].liabilities[1]
                  income == user.monthly_income[1]
              IN  IF debt_to_income_leq(liabilities, income, 2) THEN [points |-> 20, rated |-> TRUE, rating |-> "Excellent"]
                  ELSE IF debt_to_income_leq(liabilities, income, 4) THEN [points |-> 15, rated |-> TRUE, rating |-> "Good"]
                  ELSE IF debt_to_income_leq(liabilities, income, 6) THEN [points |-> 10, rated |-> TRUE, rating |-> "Average"]
                  ELSE [points |-> 5, rated |-> TRUE, rating |-> "Poor"]
         ELSE [points |-> 0, rated |-> FALSE, rating |-> ""]
    ELSE [points |-> 20, rated |-> TRUE, rating |-> "Excellent"]

\* Goal setting factor (10 points)
goal_factor(goals_count) ==
    IF goals_count >= 3 THEN [points |-> 10, rated |-> TRUE, rating |-> "Excellent"]
    ELSE IF goals_count >= 2 THEN [points |-> 8, rated |-> TRUE, rating |-> "Good"]
    ELSE IF goals_count >= 1 THEN [points |-> 5, rated |-> TRUE, rating |-> "Average"]
    ELSE [points |-> 0, rated |-> TRUE, rating |-> "Poor"]

\* faulty variant: the band limits made strict
overall_rating_strict(score) ==
    IF score > 85 THEN "Excellent"
    ELSE IF score > 70 THEN "Good"
    ELSE IF score > 55 THEN "Average"
    ELSE IF score > 40 THEN "Below Average"
    ELSE "Poor"

overall_rating(score) ==
    IF score >= 85 THEN "Excellent"
    ELSE IF score >= 70 THEN "Good"
    ELSE IF score >= 55 THEN "Average"
    ELSE IF score >= 40 THEN "Below Average"
    ELSE "Poor"

Min(a, b) ==
    IF a <= b THEN a ELSE b

\* factors.get(key) in ['Average', 'Poor']
FactorWeak(factors, key) ==
    key \in DOMAIN factors /\ factors[key] \in {"Average", "Poor"}

get_health_recommendations(score, factors) ==
    (IF FactorWeak(factors, "expense_ratio")
     THEN <<"Reduce monthly expenses to improve savings rate">> ELSE <<>>)
    \o (IF FactorWeak(factors, "diversification")
        THEN <<"Diversify investments across different asset classes">> ELSE <<>>)
    \o (IF FactorWeak(factors, "debt")
        THEN <<"Focus on reducing debt burden">> ELSE <<>>)
    \o (IF FactorWeak(factors, "goal_planning")
        THEN <<"Set clear financial goals with timelines">> ELSE <<>>)
    \o (IF score < 70
        THEN <<"Consider consulting a financial advisor">> ELSE <<>>)

\* the sum of the six buckets fails on a null one
SnapshotRaises(asset_snapshot) ==
    asset_snapshot # None /\ \E b \in Buckets : asset_snapshot[1][b] = None

calculate_financial_health_score(user, asset_snapshot, goals_count) ==
    IF SnapshotRaises(asset_snapshot) THEN [raised |-> "TypeError"]
    ELSE
    LET income == income_factor(user)
        expense == expense_factor(user)
        diversification == diversification_factor(asset_snapshot)
        debt == debt_factor(user, asset_snapshot)
        goal == goal_factor(goals_count)
        score == income.points + expense.points + diversification.points
                 + debt.points + goal.points
        factors == Entry(income.rated, "income", income.rating)
                   @@ Entry(expense.rated, "expense_ratio", expense.rating)
                   @@ Entry(diversification.rated, "diversification",
                            diversification.rating)
                   @@ Entry(debt.rated, "debt", debt.rating)
                   @@ Entry(goal.rated, "goal_planning", goal.rating)
    IN  [raised |-> "None",
         score |-> Min(score, 100),
         rating |-> overall_rating(score),
         factors |-> factors,
         recommendations |-> get_health_recommendations(score, factors)]

HealthRequests ==
    [user : Users, asset_snapshot : OptSnapshots, goals_count : 0..MaxGoals]

get_financial_health_score ==
    /\ Called("get_financial_health_score")
    /\ Return(LET health_score == calculate_financial_health_score(
                                      req.user, req.asset_snapshot,
                                      req.goals_count)
              IN  IF health_score.raised # "None"
                  THEN [status |-> 500, success |-> FALSE,
                        error |-> health_score.raised]
                  ELSE [status |-> 200, success |-> TRUE,
                        data |-> health_score])

----------------------------------------------------------------------------
(* calculate_portfolio_risk and calculate_diversification_score            *)
(* (dashboard.py).  A snapshot is [asset_type, amount].  Risk weights are  *)
(* in tenths; a percentage is the fraction [num, den]; risk_score and      *)
(* volatility_estimate, which the code rounds to two places, are in        *)
(* hundredths.  The result does not depend on the order of snapshots of     *)
(* different asset types, so the lists drawn keep each type's snapshots     *)
(* together, in the order of RiskTypeOrder.                                 *)

MaxSnapshots == 5

RiskTypeOrder ==
    <<"real_estate", "stocks", "sip", "fixed_deposit", "gold", "bonds">>

RiskTypes == {RiskTypeOrder[i] : i \in 1..Len(RiskTypeOrder)}

SnapshotAmounts == {0, 1, 20000}

AssetRows == [asset_type : RiskTypes, amount : SnapshotAmounts]

TypeRank(t) ==
    CHOOSE i \in 1..Len(RiskTypeOrder) : RiskTypeOrder[i] = t

RECURSIVE SnapshotLists(_)
SnapshotLists(n) ==
    IF n = 0 THEN {<<>>}
    ELSE LET shorter == SnapshotLists(n - 1)
         IN  shorter \cup
             {Append(p[1], p[2]) :
                p \in {q \in shorter \X AssetRows :
                         /\ Len(q[1]) = n - 1
                         /\ \/ q[1] = <<>>
                            \/ TypeRank(q[1][Len(q[1])].asset_type)
                                 <= TypeRank(q[2].asset_type)}}

\* total_value = sum(s.amount for s in snapshots)
RECURSIVE total_value(_)
total_value(snapshots) ==
    IF snapshots = <<>> THEN 0
    ELSE snapshots[1].amount + total_value(Tail(snapshots))

\* faulty variant: the amount is not divided by the total
percentage_unscaled(amount, total) ==
    [num |-> amount * 100, den |-> 1]

\* (snapshot.amount / total_value * 100) if total_value > 0 else 0
percentage(amount, total) ==
    IF total > 0 THEN [num |-> amount * 100, den |-> total]
    ELSE [num |-> 0, den |-> 1]

\* asset_allocation[asset_type] = percentage, a later snapshot of the same
\* asset type replacing the earlier one
asset_allocation(snapshots) ==
    LET total == total_value(snapshots)
        types == {snapshots[i].asset_type : i \in 1..Len(snapshots)}
        last(t) == CHOOSE i \in 1..Len(snapshots) :
                      /\ snapshots[i].asset_type = t
                      /\ \A j \in (i + 1)..Len(snapshots) :
                            snapshots[j].asset_type # t
    IN  [t \in types |-> percentage(snapshots[last(t)].amount, total)]

\* faulty variant: a weight for a class the return-rate table does not hold
risk_weights_with_bonds ==
    [real_estate |-> 6, stocks |-> 8, sip |-> 5, fixed_deposit |-> 1,
     gold |-> 3, ppf |-> 1, bonds |-> 2]

risk_weights ==
    [real_estate |-> 6, stocks |-> 8, sip |-> 5, fixed_deposit |-> 1,
     gold |-> 3, ppf |-> 1]

\* the sum of (percentage / 100) * weight * 100 over the keys, as the
\* numerator over the percentages' common denominator times 1000
RECURSIVE WeightedSum(_, _)
WeightedSum(allocation, keys) ==
    IF keys = {} THEN 0
    ELSE LET k == CHOOSE x \in keys : TRUE
         IN  allocation[k].num * DictGet(risk_weights, k, 5)
             + WeightedSum(allocation, keys \ {k})

\* risk_score before rounding, as a fraction
risk_score(allocation) ==
    IF DOMAIN allocation = {} THEN [num |-> 0, den |-> 1]
    ELSE LET k == CHOOSE x \in DOMAIN allocation : TRUE
         IN  [num |-> WeightedSum(allocation, DOMAIN allocation),
              den |-> allocation[k].den * 10]

\* round(num / den, 2), in hundredths
Round2(num, den) ==
    LET whole == num \div den
        q == ((num % den) * 100) \div den
        r == ((num % den) * 100) % den
    IN  whole * 100
        + (IF 2 * r > den \/ (2 * r = den /\ q % 2 = 1) THEN q + 1 ELSE q)

\* 'HIGH' if risk_score > 70 else 'MEDIUM' if risk_score > 30 else 'LOW'.
\* The code compares the float sum.  Where the exact sum equals 30 or 70,
\* the float sum of three or more non-zero terms is that value or, depending
\* on the order of summation, a rounding error above it (float_excess); the
\* sum of one or two terms is exact for every allocation drawn here.
risk_level(score, float_excess) ==
    LET above(t) == \/ score.num > t * score.den
                    \/ score.num = t * score.den /\ float_excess
    IN  IF above(70) THEN "HIGH"
        ELSE IF above(30) THEN "MEDIUM"
        ELSE "LOW"

calculate_diversification_score(allocation) ==
    LET num_assets == Cardinality(DOMAIN allocation)
    IN  IF num_assets = 0 THEN 0
        ELSE IF num_assets = 1 THEN 20
        ELSE IF num_assets = 2 THEN 40
        ELSE IF num_assets >= 5 THEN 90
        ELSE 60

calculate_portfolio_risk(snapshots, float_excess) ==
    LET allocation == asset_allocation(snapshots)
        score == risk_score(allocation)
    IN  [risk_score |-> Round2(score.num, score.den),
         risk_level |->
            risk_level(score,
                       /\ float_excess
                       /\ Cardinality({k \in DOMAIN allocation :
                                          allocation[k].num > 0}) >= 3),
         asset_allocation |-> allocation,
         diversification_score |-> calculate_diversification_score(allocation),
         volatility_estimate |-> Round2(score.num * 3, score.den * 10)]

RiskRequests == [snapshots : SnapshotLists(MaxSnapshots)]

call_calculate_portfolio_risk ==
    /\ Called("calculate_portfolio_risk")
    /\ \E float_excess \in BOOLEAN :
          Return(calculate_portfolio_risk(req.snapshots, float_excess))

----------------------------------------------------------------------------
(* generate_portfolio_recommendations, get_default_recommendations and     *)
(* parse_ai_recommendations (investments.py).  The advisory service is an  *)
(* input: whether an API key is configured, and what the call does.  The   *)
(* timestamp of the result is left out.                                     *)

Template(name, allocation, rationale, confidence) ==
    [name |-> name, allocation |-> allocation, rationale |-> rationale,
     confidence |-> confidence]

\* faulty variant: one template for every profile, its shares adding to 95
get_default_recommendations_short(user_profile, goal_data, zone_data) ==
    [portfolios |->
        << Template("Recommended",
               [index_funds |-> 40, flexi_cap |-> 25, debt_funds |-> 20,
                gold_etf |-> 10],
               <<"Balanced risk-return", "Diversified portfolio",
                 "Suitable for moderate risk">>, "High") >>,
     portfolios_type |-> "list",
     generated_by |-> "Default Algorithm"]

get_default_recommendations(user_profile, goal_data, zone_data) ==
    LET risk_profile ==
            IF user_profile.risk_profile = None THEN "MODERATE"
            ELSE user_profile.risk_profile[1]
        portfolios ==
            IF risk_profile = "CONSERVATIVE" THEN
              << Template("Conservative",
                     [debt_funds |-> 60, index_funds |-> 25, gold_etf |-> 15],
                     <<"Capital preservation focus", "Low volatility",
                       "Steady returns">>, "High"),
                 Template("Ultra Conservative",
                     [debt_funds |-> 70, index_funds |-> 20, gold_etf |-> 10],
                     <<"Maximum safety", "Minimal risk",
                       "Predictable returns">>, "High") >>
            ELSE IF risk_profile = "GROWTH" THEN
              << Template("Growth",
                     [flexi_cap |-> 40, index_funds |-> 35, reits |-> 15,
                      gold_etf |-> 10],
                     <<"High growth potential", "Diversified equity exposure",
                       "Long-term wealth creation">>, "Medium"),
                 Template("Aggressive Growth",
                     [flexi_cap |-> 50, index_funds |-> 30, reits |-> 20],
                     <<"Maximum growth focus", "Higher risk tolerance",
                       "Long investment horizon">>, "Medium") >>
            ELSE
              << Template("Recommended",
                     [index_funds |-> 40, flexi_cap |-> 25, debt_funds |-> 20,
                      gold_etf |-> 15],
                     <<"Balanced risk-return", "Diversified portfolio",
                       "Suitable for moderate risk">>, "High"),
                 Template("Conservative",
                     [debt_funds |-> 40, index_funds |-> 35, gold_etf |-> 25],
                     <<"Lower risk approach", "Stable returns",
                       "Capital protection">>, "High"),
                 Template("Growth",
                     [flexi_cap |-> 35, index_funds |-> 35, reits |-> 20,
                      gold_etf |-> 10],
                     <<"Higher growth potential", "Equity focused",
                       "Long-term gains">>, "Medium") >>
    IN  [portfolios |-> portfolios, portfolios_type |-> "list",
         generated_by |-> "Default Algorithm"]

\* What the service's text holds: no {...} at all, a {...} that is not
\* JSON, or a JSON object, which is then returned as it is.
AiTexts ==
    {[kind |-> "no_json"], [kind |-> "bad_json"]}
    \cup {[kind |-> "json", object |-> o] :
            o \in {[portfolios |-> <<>>], [note |-> "see advisor"]}}

\* faulty variant: nothing returned for a text that cannot be parsed
parse_ai_recommendations_no_fallback(ai_text) ==
    IF ai_text.kind = "json" THEN ai_text.object
    ELSE <<>>

parse_ai_recommendations(ai_text) ==
    IF ai_text.kind = "json" THEN ai_text.object
    ELSE << Template("AI Recommended",
                [index_funds |-> 40, flexi_cap |-> 25, debt_funds |-> 20,
                 gold_etf |-> 15],
                <<"AI-generated recommendation", "Balanced approach",
                  "Risk-adjusted returns">>, "Medium") >>

\* The Python type of what parse_ai_recommendations returns: json.loads of
\* a {...} match is a dict, the fallback is a list.  A result carries it as
\* portfolios_type beside the value, a list literal giving "list".
parsed_type(ai_text) ==
    IF ai_text.kind = "json" THEN "dict" ELSE "list"

\* The service call: it raises, or it answers with a text.
ServiceOutcomes ==
    {[raises |-> TRUE]} \cup {[raises |-> FALSE, text |-> t] : t \in AiTexts}

generate_portfolio_recommendations(user_profile, goal_data, zone_data, api_key, service) ==
    IF ~api_key
    THEN get_default_recommendations(user_profile, goal_data, zone_data)
    ELSE IF service.raises
    THEN get_default_recommendations(user_profile, goal_data, zone_data)
    ELSE [portfolios |-> parse_ai_recommendations(service.text),
          portfolios_type |-> parsed_type(service.text),
          generated_by |-> "AI"]

UserProfiles ==
    [risk_profile :
        {None} \cup {Some(p) : p \in RiskProfiles}]

RecommendationRequests ==
    [user_profile : UserProfiles, goal_data : {None}, zone_data : OptZones,
     api_key : BOOLEAN, service : ServiceOutcomes]

call_generate_portfolio_recommendations ==
    /\ Called("generate_portfolio_recommendations")
    /\ Return(generate_portfolio_recommendations(
                  req.user_profile, req.goal_data, req.zone_data,
                  req.api_key, req.service))

----------------------------------------------------------------------------
(* POST /plans (investments.py create_plan).  The request's plan fields    *)
(* are all there and valid, or a key is missing (KeyError when the Plan is *)
(* built), or monthly_amount is null (the commit fails on NOT NULL).  Its  *)
(* projections are absent or empty, a dict of valid values, a non-empty    *)
(* value that is no dict (no .get), or a dict holding an explicit null     *)
(* coverage (the second commit fails on NOT NULL).  The response carries,  *)
(* beside status and success, the rows of this request that the tables     *)
(* hold once the handler is done.                                          *)

PlanFields == {"valid", "missing_key", "null_monthly_amount"}

ProjectionFields == {"absent", "valid", "not_a_dict", "null_coverage"}

\* db.session: the rows the tables hold and the rows added since
NewSession ==
    [committed |-> {}, pending |-> {}]

add(session, row) ==
    [session EXCEPT !.pending = @ \cup {row}]

commit(session) ==
    [committed |-> session.committed \cup session.pending, pending |-> {}]

\* rollback() drops what was added since the last commit
rollback(session) ==
    [session EXCEPT !.pending = {}]

create_plan_result(data) ==
    IF data.plan = "missing_key"
    THEN [status |-> 500, success |-> FALSE, error |-> "KeyError",
          rows |-> rollback(NewSession).committed]
    ELSE LET with_plan == add(NewSession, "plan")
         IN  IF data.plan = "null_monthly_amount"
             THEN \* db.session.commit() raises
                  [status |-> 500, success |-> FALSE,
                   error |-> "IntegrityError",
                   rows |-> rollback(with_plan).committed]
             ELSE LET plan_committed == commit(with_plan)
                      with_projection == add(plan_committed, "projection")
                  IN  IF data.projections = "absent"
                      THEN [status |-> 200, success |-> TRUE, error |-> "",
                            rows |-> plan_committed.committed]
                      ELSE IF data.projections = "not_a_dict"
                      THEN \* projections_data.get raises
                           [status |-> 500, success |-> FALSE,
                            error |-> "AttributeError",
                            rows |-> rollback(plan_committed).committed]
                      ELSE IF data.projections = "null_coverage"
                      THEN \* the second db.session.commit() raises
                           [status |-> 500, success |-> FALSE,
                            error |-> "IntegrityError",
                            rows |-> rollback(with_projection).committed]
                      ELSE [status |-> 200, success |-> TRUE, error |-> "",
                            rows |-> commit(with_projection).committed]

PlanRequests ==
    [plan : PlanFields, projections : ProjectionFields]

create_plan ==
    /\ Called("create_plan")
    /\ Return(create_plan_result(req))

----------------------------------------------------------------------------
(* The tables behind rebalance_portfolio (portfolio.py) and                *)
(* get_risk_analysis (dashboard.py).  Both handlers query the entity       *)
(* AssetSnapshot of models/investment.py by plan_id and read asset_type    *)
(* and amount from its rows; the entity declares none of these columns, so *)
(* the query raises before a row is read.  A row is a record of its        *)
(* columns' values; a table is a sequence of rows.                          *)

AssetSnapshotColumns ==
    {"id", "user_id", "savings", "mf", "stocks", "gold", "epf",
     "real_estate", "liabilities", "as_of_date", "created_at"}

PlanColumns ==
    {"id", "user_id", "goal_id", "allocation_json", "monthly_amount",
     "created_at"}

\* Query.filter_by(column=value): InvalidRequestError when the entity has
\* no such column
filter_by(columns, rows, column, value) ==
    IF column \notin columns
    THEN [raised |-> "InvalidRequestError", rows |-> <<>>]
    ELSE [raised |-> "None",
          rows |-> SelectSeq(rows, LAMBDA row : row[column] = value)]

\* Entity(**kwargs): TypeError for a keyword that is no column
construct(columns, kwargs) ==
    IF DOMAIN kwargs \subseteq columns
    THEN [raised |-> "None", row |-> kwargs]
    ELSE [raised |-> "TypeError", row |-> kwargs]

MaxPortfolios == 2

MaxRebalances == 2

PlanRow(id, user_id) ==
    [id |-> id, user_id |-> user_id, goal_id |-> 1,
     allocation_json |-> "{}", monthly_amount |-> 5000, created_at |-> 0]

AssetSnapshotRow(id, user_id, held) ==
    [id |-> id, user_id |-> user_id, savings |-> held, mf |-> 0,
     stocks |-> held, gold |-> 0, epf |-> 0, real_estate |-> 0,
     liabilities |-> 0, as_of_date |-> 0, created_at |-> 0]

\* the plans 1..n of user 1, and no or one asset snapshot of that user
Databases ==
    [plans : {[i \in 1..n |-> PlanRow(i, 1)] : n \in 0..MaxPortfolios},
     asset_snapshots : {<<>>, <<AssetSnapshotRow(1, 1, 1000)>>,
                        <<AssetSnapshotRow(1, 1, 0)>>}]

----------------------------------------------------------------------------
(* POST /portfolio/<portfolio_id>/rebalance.  new_allocations is the        *)
(* sequence of the dict's items, in its order.                              *)

\* current_amount: the sum of the amounts of the rows of one asset type
RECURSIVE current_amount(_, _)
current_amount(current_snapshots, asset_type) ==
    IF current_snapshots = <<>> THEN 0
    ELSE (IF current_snapshots[1].asset_type = asset_type
          THEN current_snapshots[1].amount ELSE 0)
         + current_amount(Tail(current_snapshots), asset_type)

\* (total_value * target_percentage) / 100; the quotient is exact when the
\* product is a multiple of 100
target_amount(total, target_percentage) ==
    (total * target_percentage) \div 100

\* the actions of the loop over new_allocations.items()
RECURSIVE rebalance_actions(_, _, _)
rebalance_actions(new_allocations, current_snapshots, total) ==
    IF new_allocations = <<>> THEN <<>>
    ELSE LET asset_type == new_allocations[1].asset_type
             target == target_amount(total,
                                     new_allocations[1].target_percentage)
             current == current_amount(current_snapshots, asset_type)
             difference == target - current
         IN  (IF Abs(difference) > 100
              THEN <<[asset_type |-> asset_type,
                      current_amount |-> current,
                      target_amount |-> target,
                      action |-> IF difference > 0 THEN "BUY" ELSE "SELL",
                      amount |-> Abs(difference)]>>
              ELSE <<>>)
             \o rebalance_actions(Tail(new_allocations), current_snapshots,
                                  total)

\* the response and the tables after the handler
rebalance_portfolio_result(db, portfolio_id, new_allocations) ==
    IF \A i \in DOMAIN db.plans : db.plans[i].id # portfolio_id
    THEN [status |-> 404, success |-> FALSE,
          error |-> "Portfolio not found", db |-> db]
    ELSE
    LET query == filter_by(AssetSnapshotColumns, db.asset_snapshots,
                           "plan_id", portfolio_id)
    IN  IF query.raised # "None"
        THEN [status |-> 500, success |-> FALSE, error |-> query.raised,
              db |-> db]
        ELSE
        LET current_snapshots == query.rows
            total == total_value(current_snapshots)
            actions == rebalance_actions(new_allocations, current_snapshots,
                                         total)
            new_snapshots ==
                [i \in 1..Len(actions) |->
                    construct(AssetSnapshotColumns,
                              [plan_id |-> portfolio_id,
                               asset_type |-> actions[i].asset_type,
                               amount |-> actions[i].target_amount,
                               units |-> actions[i].target_amount,
                               price_per_unit |-> 1, date |-> 0])]
        IN  IF \E i \in 1..Len(actions) : new_snapshots[i].raised # "None"
            THEN [status |-> 500, success |-> FALSE, error |-> "TypeError",
                  db |-> db]
            ELSE [status |-> 200, success |-> TRUE, error |-> "",
                  rebalance_actions |-> actions,
                  new_allocations |-> new_allocations,
                  total_value |-> total,
                  db |-> [db EXCEPT !.asset_snapshots =
                            @ \o [i \in 1..Len(actions) |->
                                     new_snapshots[i].row]]]

TargetPercentages == {0, 50, 100}

\* allocations naming none, one or both of two asset types
Allocations ==
    {<<>>}
    \cup {<<[asset_type |-> t, target_percentage |-> p]>> :
            t \in {"stocks", "gold"}, p \in TargetPercentages}
    \cup {<<[asset_type |-> "stocks", target_percentage |-> p],
            [asset_type |-> "gold", target_percentage |-> q]>> :
            p \in TargetPercentages, q \in TargetPercentages}

RebalanceRequests ==
    [db : Databases, portfolio_id : {1}]

\* one more rebalance of the portfolio; the tables it leaves are the tables
\* of the next one.  Beside the response the state keeps the tables before
\* the call and the allocations requested so far.
rebalance_portfolio ==
    /\ op = "rebalance_portfolio"
    /\ \/ pc = "called"
       \/ pc = "returned" /\ resp.calls < MaxRebalances
    /\ \E new_allocations \in Allocations :
          LET db == IF pc = "called" THEN req.db ELSE resp.response.db
              requested == IF pc = "called" THEN <<>> ELSE resp.requested
              result == rebalance_portfolio_result(db, req.portfolio_id,
                                                   new_allocations)
          IN  Return([response |-> result, before |-> db,
                      requested |-> Append(requested, new_allocations),
                      calls |-> Len(requested) + 1])

----------------------------------------------------------------------------
(* GET /dashboard/risk-analysis (dashboard.py get_risk_analysis), for user *)
(* 1.  The average risk score is the fraction [num, den] of hundredths.    *)

\* sum(r['risk_score'] for r in risk_metrics)
RECURSIVE SumRiskScores(_)
SumRiskScores(risk_metrics) ==
    IF risk_metrics = <<>> THEN 0
    ELSE risk_metrics[1].risk_score + SumRiskScores(Tail(risk_metrics))

\* overall_risk: the default, or score and level of the average risk score
overall_risk(risk_metrics) ==
    IF risk_metrics = <<>>
    THEN [score |-> [num |-> 0, den |-> 1], level |-> "MEDIUM"]
    ELSE LET total == SumRiskScores(risk_metrics)
             count == Len(risk_metrics)
         IN  [score |-> [num |-> total, den |-> count],
              level |-> IF total < 3000 * count THEN "LOW"
                        ELSE IF total < 7000 * count THEN "MEDIUM"
                        ELSE "HIGH"]

get_risk_analysis_result(db, user_id, float_excess) ==
    LET portfolios == filter_by(PlanColumns, db.plans, "user_id",
                                user_id).rows
        queries ==
            [i \in 1..Len(portfolios) |->
                filter_by(AssetSnapshotColumns, db.asset_snapshots,
                          "plan_id", portfolios[i].id)]
    IN  IF \E i \in 1..Len(portfolios) : queries[i].raised # "None"
        THEN [status |-> 500, success |-> FALSE,
              error |-> "InvalidRequestError"]
        ELSE IF portfolios # <<>> /\ "name" \notin PlanColumns
        THEN \* 'portfolio_name': portfolio.name
             [status |-> 500, success |-> FALSE, error |-> "AttributeError"]
        ELSE LET risk_metrics ==
                    [i \in 1..Len(portfolios) |->
                        calculate_portfolio_risk(queries[i].rows,
                                                 float_excess[i])]
             IN  [status |-> 200, success |-> TRUE, error |-> "",
                  overall_risk |-> overall_risk(risk_metrics),
                  portfolio_risks |-> risk_metrics]

RiskAnalysisRequests ==
    [db : Databases, user_id : {1, 2}]

get_risk_analysis ==
    /\ Called("get_risk_analysis")
    /\ \E float_excess \in [1..Len(req.db.plans) -> BOOLEAN] :
          Return(get_risk_analysis_result(req.db, req.user_id, float_excess))

----------------------------------------------------------------------------

Init ==
    /\ pc = "called"
    /\ resp = <<>>
    /\ \/ op = "sip_calculator" /\ req \in SipRequests
       \/ op = "calculate_investment_returns" /\ req \in ReturnsRequests
       \/ op = "compare_investments" /\ req \in CompareRequests
       \/ op = "calculate_zone_roi" /\ req \in ZoneRoiRequests
       \/ op = "get_financial_health_score" /\ req \in HealthRequests
       \/ op = "calculate_portfolio_risk" /\ req \in RiskRequests
       \/ /\ op = "generate_portfolio_recommendations"
          /\ req \in RecommendationRequests
       \/ op = "create_plan" /\ req \in PlanRequests
       \/ op = "rebalance_portfolio" /\ req \in RebalanceRequests
       \/ op = "get_risk_analysis" /\ req \in RiskAnalysisRequests

Next ==
    \/ sip_calculator
    \/ call_calculate_investment_returns
    \/ compare_investments
    \/ calculate_zone_roi
    \/ get_financial_health_score
    \/ call_calculate_portfolio_risk
    \/ call_generate_portfolio_recommendations
    \/ create_plan
    \/ rebalance_portfolio
    \/ get_risk_analysis

Spec == Init /\ [][Next]_vars


----------------------------------------------------------------------------
(* The claims.                                                             *)

HealthOk ==
    Returned("get_financial_health_score") /\ resp.status = 200

LiabilitiesAbsent ==
    req.asset_snapshot = None \/ ~Truthy(req.asset_snapshot[1].liabilities)

IncomeAbsent ==
    ~Truthy(req.user.monthly_income)

\* the score the response must carry when the debt factor gives `points`
ScoreWithDebt(points) ==
    Min(income_factor(req.user).points + expense_factor(req.user).points
        + diversification_factor(req.asset_snapshot).points + points
        + goal_factor(req.goals_count).points, 100)

\* C1: for every income, expenses, snapshot of non-negative values and goal
\* count, the score returned lies in 0..100.
C1_ScoreInRange ==
    HealthOk => resp.data.score >= 0 /\ resp.data.score <= 100

\* C1 witness: a request whose five factors add up to the cap, 100
C1_Witness ==
    /\ HealthOk
    /\ resp.data.score = 100
    /\ req.goals_count >= 3
    /\ req.asset_snapshot # None

SipOk ==
    Returned("sip_calculator")

\* C2 as stated: 'Lump Sum' only when the lump-sum future value is strictly
\* greater than the SIP future value; on a tie the recommendation is 'SIP'.
C2_TiesFavorSip ==
    SipOk =>
        /\ resp.recommendation = "Lump Sum" =>
              RatLess(resp.sip_details.future_value,
                      resp.lump_sum_comparison.future_value)
        /\ RatEq(resp.sip_details.future_value,
                 resp.lump_sum_comparison.future_value) =>
              resp.recommendation = "SIP"

\* C2 amended: the recommendation is 'SIP' exactly when the SIP future value
\* is strictly greater than the lump-sum future value; on a tie (as at
\* annual_return = 0) it is 'Lump Sum'.
C2_TiesFavorLumpSum ==
    SipOk =>
        /\ resp.recommendation = "SIP" <=>
              RatLess(resp.lump_sum_comparison.future_value,
                      resp.sip_details.future_value)
        /\ resp.recommendation \in {"SIP", "Lump Sum"}
        /\ RatEq(resp.sip_details.future_value,
                 resp.lump_sum_comparison.future_value) =>
              resp.recommendation = "Lump Sum"

\* C2 witness: annual_return = 0 with money invested: a tie, 'Lump Sum'
C2_Witness ==
    /\ SipOk
    /\ req.annual_return = 0 /\ req.monthly_sip > 0 /\ req.time_period > 0
    /\ RatEq(resp.sip_details.future_value,
             resp.lump_sum_comparison.future_value)
    /\ resp.recommendation = "Lump Sum"

\* C3 as stated: whenever liabilities or the monthly income are absent, the
\* debt factor contributes 20 points and is rated 'Excellent'.
C3_DebtDefaultOnAnyAbsence ==
    HealthOk /\ (LiabilitiesAbsent \/ IncomeAbsent) =>
        /\ "debt" \in DOMAIN resp.data.factors
        /\ resp.data.factors["debt"] = "Excellent"
        /\ resp.data.score = ScoreWithDebt(20)

\* C3 amended: whenever liabilities are absent (no snapshot, or liabilities
\* null or 0) the debt factor contributes 20 points and is rated
\* 'Excellent'; with liabilities > 0 and no monthly income (null or 0) it
\* contributes nothing and has no rating.
C3_DebtDefaultOnNoLiabilities ==
    HealthOk =>
        /\ LiabilitiesAbsent =>
              /\ "debt" \in DOMAIN resp.data.factors
              /\ resp.data.factors["debt"] = "Excellent"
              /\ resp.data.score = ScoreWithDebt(20)
        /\ ~LiabilitiesAbsent /\ IncomeAbsent =>
              /\ "debt" \notin DOMAIN resp.data.factors
              /\ resp.data.score = ScoreWithDebt(0)

\* C3 witness: liabilities > 0, no monthly income, and no debt rating
C3_Witness ==
    /\ HealthOk
    /\ ~LiabilitiesAbsent
    /\ req.user.monthly_income = None
    /\ "debt" \notin DOMAIN resp.data.factors

\* the rating C4 gives for liabilities / (12 * monthly_income)
DebtToAnnualIncomeRating(liabilities, monthly_income) ==
    IF liabilities <= 2 * (12 * monthly_income) THEN "Excellent"
    ELSE IF liabilities <= 4 * (12 * monthly_income) THEN "Good"
    ELSE IF liabilities <= 6 * (12 * monthly_income) THEN "Average"
    ELSE "Poor"

\* C4: with liabilities and monthly income both positive, the debt factor is
\* decided by liabilities / (12 * monthly_income): <= 2 gives 20 points
\* ('Excellent'), <= 4 gives 15, <= 6 gives 10, otherwise 5.
C4_DebtToAnnualIncome ==
    HealthOk /\ ~LiabilitiesAbsent /\ ~IncomeAbsent
             /\ req.asset_snapshot[1].liabilities[1] > 0
             /\ req.user.monthly_income[1] > 0 =>
        /\ "debt" \in DOMAIN resp.data.factors
        /\ resp.data.factors["debt"] =
              DebtToAnnualIncomeRating(req.asset_snapshot[1].liabilities[1],
                                       req.user.monthly_income[1])

ReturnsOk ==
    Returned("calculate_investment_returns") /\ resp.raised = "None"

ZoneRoiOk ==
    Returned("calculate_zone_roi") /\ resp.status = 200

\* C5: for amount > 0 and horizon_months > 0, pessimistic.future_value <=
\* future_value <= optimistic.future_value, in calculate_investment_returns
\* and in calculate_roi_for_zone.
C5_StressOrdering ==
    /\ ReturnsOk /\ req.amount > 0 /\ req.horizon_months > 0 =>
          /\ GLeq(resp.stress_scenarios.pessimistic.future_value,
                  resp.future_value)
          /\ GLeq(resp.future_value,
                  resp.stress_scenarios.optimistic.future_value)
    /\ ZoneRoiOk /\ req.amount > 0 /\ req.horizon > 0 =>
          /\ resp.data.stress_scenarios.pessimistic.future_value
                <= resp.data.future_value
          /\ resp.data.future_value
                <= resp.data.stress_scenarios.optimistic.future_value

\* C5 witness: a projection whose three values are strictly ordered
C5_Witness ==
    /\ ReturnsOk /\ req.amount > 0 /\ req.horizon_months > 0
    /\ GLess(resp.stress_scenarios.pessimistic.future_value, resp.future_value)
    /\ GLess(resp.future_value, resp.stress_scenarios.optimistic.future_value)

UnknownType ==
    req.investment_type \notin DOMAIN return_rates

C7_NonPositiveAmountRejected ==
    /\ Returned("calculate_investment_returns") /\ req.amount <= 0 =>
          resp.raised # "None"
    /\ Returned("compare_investments") /\ req.amount <= 0 =>
          resp.status # 200

\* C8: a request with horizon_months <= 0 returns no projection values.
C8_NonPositiveHorizonRejected ==
    Returned("calculate_investment_returns") /\ req.horizon_months <= 0 =>
        resp.raised # "None"

OutlookOffset(outlook) ==
    IF outlook = "HIGH" THEN 20 ELSE IF outlook = "LOW" THEN -20 ELSE 0

RealEstateInZone ==
    ReturnsOk /\ req.investment_type = "real_estate" /\ req.zone # None

C10_OutlookOnlyForRealEstate ==
    ReturnsOk =>
        /\ req.investment_type = "real_estate" /\ req.zone # None =>
              resp.annual_return_rate =
                  (CASE req.zone[1].outlook = "HIGH" -> 140
                     [] req.zone[1].outlook = "LOW" -> 100
                     [] req.zone[1].outlook = "MODERATE" -> 120)
        /\ req.investment_type # "real_estate" =>
              resp.annual_return_rate =
                  calculate_investment_returns(
                      req.investment_type, req.amount, req.horizon_months, None
                  ).annual_return_rate

\* C10 witness: stocks in a HIGH-outlook zone, at the table's 15.0
C10_Witness ==
    /\ ReturnsOk
    /\ req.investment_type = "stocks"
    /\ req.zone # None /\ req.zone[1].outlook = "HIGH"
    /\ resp.annual_return_rate = 150

DefaultRecommendations ==
    /\ Returned("generate_portfolio_recommendations")
    /\ resp.generated_by = "Default Algorithm"

ZoneRateKeys ==
    UNION {DOMAIN base_rates[o] : o \in DOMAIN base_rates}

CompareOk ==
    Returned("compare_investments") /\ resp.status = 200

C12_InvestedSchedule ==
    SipOk /\ req.monthly_sip > 0 /\ req.time_period >= 1 =>
        LET rows == resp.yearly_breakdown
        IN  /\ resp.sip_details.total_invested
                  = req.monthly_sip * req.time_period * 12
            /\ Len(rows) = req.time_period
            /\ \A i \in 1..Len(rows) : rows[i].year = i
            /\ \A i \in 1..(Len(rows) - 1) :
                  rows[i].invested < rows[i + 1].invested
            /\ rows[Len(rows)].invested = resp.sip_details.total_invested

\* C12 witness: a breakdown of several years
C12_Witness ==
    /\ SipOk /\ req.monthly_sip > 0 /\ req.time_period >= 2
    /\ Len(resp.yearly_breakdown) = req.time_period
    /\ resp.yearly_breakdown[2].invested = req.monthly_sip * 24

\* C13: with annual_return = 0 the request succeeds with future_value =
\* monthly_sip * time_period * 12 and total_returns = 0, and every entry of
\* yearly_breakdown has value equal to its invested amount.
C13_ZeroRateSip ==
    SipOk /\ req.annual_return = 0 =>
        /\ resp.status = 200
        /\ RatEq(resp.sip_details.future_value,
                 RatOfInt(req.monthly_sip * req.time_period * 12))
        /\ RatEq(resp.sip_details.total_returns, RatOfInt(0))
        /\ \A i \in 1..Len(resp.yearly_breakdown) :
              /\ RatEq(resp.yearly_breakdown[i].value,
                       RatOfInt(resp.yearly_breakdown[i].invested))
              /\ RatEq(resp.yearly_breakdown[i].returns, RatOfInt(0))

\* C13 witness: 500 a month at 0% for 3 years is worth 18000
C13_Witness ==
    /\ SipOk /\ req.annual_return = 0
    /\ req.monthly_sip = 500 /\ req.time_period = 3
    /\ RatEq(resp.sip_details.future_value, RatOfInt(18000))
    /\ Len(resp.yearly_breakdown) = 3

RiskOk ==
    Returned("calculate_portfolio_risk")

\* the step function of C14
DiversificationStep(classes) ==
    IF classes = 0 THEN 0
    ELSE IF classes = 1 THEN 20
    ELSE IF classes = 2 THEN 40
    ELSE IF classes <= 4 THEN 60
    ELSE 90

\* the asset classes whose allocation in the result is not zero
NonZeroClasses ==
    {k \in DOMAIN resp.asset_allocation : resp.asset_allocation[k].num > 0}

\* C14: diversification_score is decided by the number of distinct asset
\* classes with non-zero allocation: 0 -> 0, 1 -> 20, 2 -> 40, 3 or 4 -> 60,
\* 5 or more -> 90; a class whose allocation is zero does not count.
C14_DiversificationCountsNonZero ==
    RiskOk =>
        resp.diversification_score
            = DiversificationStep(Cardinality(NonZeroClasses))

\* the sum over the snapshots of amount * risk weight * 100, in tenths
RECURSIVE WeightedAmounts(_)
WeightedAmounts(snapshots) ==
    IF snapshots = <<>> THEN 0
    ELSE snapshots[1].amount * DictGet(risk_weights, snapshots[1].asset_type, 5)
         + WeightedAmounts(Tail(snapshots))

RECURSIVE SumOfShares(_, _)
SumOfShares(allocation, keys) ==
    IF keys = {} THEN 0
    ELSE LET k == CHOOSE x \in keys : TRUE
         IN  allocation[k].num + SumOfShares(allocation, keys \ {k})

\* C15: risk_score is the sum over the asset classes of the class's share
\* of the total value times its risk weight times 100, and the shares used
\* sum to 100% whenever the total value is > 0, also when several snapshots
\* have the same asset class.
C15_SharesOfTotalValue ==
    RiskOk /\ total_value(req.snapshots) > 0 =>
        /\ SumOfShares(resp.asset_allocation, DOMAIN resp.asset_allocation)
              = 100 * total_value(req.snapshots)
        /\ resp.risk_score
              = Round2(WeightedAmounts(req.snapshots) * 10,
                       total_value(req.snapshots))

\* C16: risk_level is LOW when the reported risk_score is <= 30, MEDIUM when
\* it is in (30, 70] and HIGH when it is > 70.
C16_LevelOfReportedScore ==
    RiskOk =>
        resp.risk_level
            = (IF resp.risk_score > 7000 THEN "HIGH"
               ELSE IF resp.risk_score > 3000 THEN "MEDIUM"
               ELSE "LOW")

\* C17: for snapshots with non-negative amounts, the empty list and lists
\* of zero amounts included, risk_score and diversification_score are both
\* in [0, 100].
C17_ScoresInRange ==
    RiskOk /\ (\A i \in 1..Len(req.snapshots) : req.snapshots[i].amount >= 0) =>
        /\ resp.risk_score >= 0 /\ resp.risk_score <= 10000
        /\ resp.diversification_score >= 0
        /\ resp.diversification_score <= 100

\* C17 witness: five asset classes held, both scores positive
C17_Witness ==
    /\ RiskOk
    /\ Cardinality(NonZeroClasses) = 5
    /\ resp.diversification_score = 90
    /\ resp.risk_score > 0 /\ resp.risk_score <= 8000

RECURSIVE SumAllocation(_, _)
SumAllocation(allocation, keys) ==
    IF keys = {} THEN 0
    ELSE LET k == CHOOSE x \in keys : TRUE
         IN  allocation[k] + SumAllocation(allocation, keys \ {k})

\* C18: for each of the risk profiles CONSERVATIVE, MODERATE and GROWTH,
\* get_default_recommendations returns at least one template, and the
\* allocation of every template returned sums to 100, within 1.
C18_DefaultTemplatesComplete ==
    DefaultRecommendations
    /\ req.user_profile.risk_profile
          \in {Some("CONSERVATIVE"), Some("MODERATE"), Some("GROWTH")} =>
        /\ Len(resp.portfolios) >= 1
        /\ \A i \in 1..Len(resp.portfolios) :
              LET total == SumAllocation(resp.portfolios[i].allocation,
                                         DOMAIN resp.portfolios[i].allocation)
              IN  total >= 99 /\ total <= 101

\* C18 witness: the two GROWTH templates
C18_Witness ==
    /\ DefaultRecommendations
    /\ req.user_profile.risk_profile = Some("GROWTH")
    /\ Len(resp.portfolios) = 2
    /\ resp.portfolios[2].name = "Aggressive Growth"
    /\ SumAllocation(resp.portfolios[2].allocation,
                     DOMAIN resp.portfolios[2].allocation) = 100

\* the advisory service is absent or fails
ServiceAbsentOrFails ==
    \/ ~req.api_key
    \/ req.service.raises
    \/ req.service.text.kind \in {"no_json", "bad_json"}

\* C19: with no API key, with a service call that raises, or with a text
\* that holds no parseable JSON object, generate_portfolio_recommendations
\* returns a non-empty list of templates, each with name, allocation,
\* rationale and confidence.
C19_CompleteWithoutService ==
    Returned("generate_portfolio_recommendations") /\ ServiceAbsentOrFails =>
        /\ Len(resp.portfolios) >= 1
        /\ \A i \in 1..Len(resp.portfolios) :
              /\ DOMAIN resp.portfolios[i]
                    = {"name", "allocation", "rationale", "confidence"}
              /\ DOMAIN resp.portfolios[i].allocation # {}
              /\ Len(resp.portfolios[i].rationale) >= 1

\* C19 witness: the service answered with a text that is not JSON
C19_Witness ==
    /\ Returned("generate_portfolio_recommendations")
    /\ req.api_key /\ ~req.service.raises
    /\ req.service.text.kind = "no_json"
    /\ resp.generated_by = "AI"
    /\ Len(resp.portfolios) = 1
    /\ resp.portfolios[1].name = "AI Recommended"

\* C20: the rating returned with a health score is decided by the returned
\* score alone: >= 85 'Excellent', >= 70 'Good', >= 55 'Average', >= 40
\* 'Below Average', otherwise 'Poor'.
C20_RatingOfReturnedScore ==
    HealthOk =>
        resp.data.rating
            = (IF resp.data.score >= 85 THEN "Excellent"
               ELSE IF resp.data.score >= 70 THEN "Good"
               ELSE IF resp.data.score >= 55 THEN "Average"
               ELSE IF resp.data.score >= 40 THEN "Below Average"
               ELSE "Poor")

\* C20 witness: a score on the lower limit of a band
C20_Witness ==
    /\ HealthOk
    /\ resp.data.score = 70
    /\ resp.data.rating = "Good"

\* the score the response must carry when the diversification factor gives
\* `points`
ScoreWithDiversification(points) ==
    Min(income_factor(req.user).points + expense_factor(req.user).points
        + points + debt_factor(req.user, req.asset_snapshot).points
        + goal_factor(req.goals_count).points, 100)

\* the points of the step >= 4 -> 30, 3 -> 20, 2 -> 15, else 10
DiversificationPoints(n) ==
    IF n >= 4 THEN 30 ELSE IF n = 3 THEN 20 ELSE IF n = 2 THEN 15 ELSE 10

\* the number n of non-zero buckets of the request's snapshot
NonZeroBuckets ==
    CountHeld(req.asset_snapshot[1], Buckets)

\* C21 as stated: with a snapshot present, the diversification factor is
\* decided by the number n of non-zero buckets: n >= 4 gives 30 points,
\* n = 3 gives 20, n = 2 gives 15, any other n, 0 included, gives 10.
C21_DiversificationStepFromZero ==
    HealthOk /\ req.asset_snapshot # None =>
        /\ "diversification" \in DOMAIN resp.data.factors
        /\ resp.data.score
             = ScoreWithDiversification(DiversificationPoints(NonZeroBuckets))

\* C21 amended: with a snapshot present and n >= 1 non-zero buckets the
\* factor gives 30 points for n >= 4, 20 for n = 3, 15 for n = 2 and 10 for
\* n = 1; with n = 0 it gives no points and no rating.
C21_DiversificationStepFromOne ==
    HealthOk /\ req.asset_snapshot # None =>
        /\ NonZeroBuckets >= 1 =>
              /\ "diversification" \in DOMAIN resp.data.factors
              /\ resp.data.factors["diversification"]
                   = (IF NonZeroBuckets >= 4 THEN "Excellent"
                      ELSE IF NonZeroBuckets = 3 THEN "Good"
                      ELSE IF NonZeroBuckets = 2 THEN "Average" ELSE "Poor")
              /\ resp.data.score
                   = ScoreWithDiversification(
                         DiversificationPoints(NonZeroBuckets))
        /\ NonZeroBuckets = 0 =>
              /\ "diversification" \notin DOMAIN resp.data.factors
              /\ resp.data.score = ScoreWithDiversification(0)

\* C21 witness: a snapshot whose six buckets are all 0, answered without a
\* diversification rating
C21_Witness ==
    /\ HealthOk
    /\ req.asset_snapshot # None
    /\ NonZeroBuckets = 0
    /\ "diversification" \notin DOMAIN resp.data.factors
    /\ resp.data.score < 100

\* C22: calculate_financial_health_score never fails on incomplete data:
\* whatever of monthly_income, monthly_expenses, the snapshot, its buckets
\* and its liabilities is null, a score and a rating come back, computed
\* from the factors whose inputs are there.
C22_NeverFailsOnNulls ==
    Returned("get_financial_health_score") =>
        /\ resp.status = 200
        /\ resp.data.raised = "None"
        /\ resp.data.score \in 0..100
        /\ resp.data.rating
             \in {"Excellent", "Good", "Average", "Below Average", "Poor"}

\* C23: for a fixed investment type, zone and horizon_months > 0, the
\* future_value returned is strictly increasing in the amount over positive
\* amounts: every larger amount gives a larger future_value.
C23_FutureValueIncreasing ==
    ReturnsOk /\ req.amount > 0 /\ req.horizon_months > 0 =>
        \A a2 \in Amounts :
            a2 > req.amount =>
                GLess(resp.future_value,
                      calculate_investment_returns(
                          req.investment_type, a2, req.horizon_months,
                          req.zone).future_value)

\* C23 witness: an answer for a positive amount below the largest one drawn,
\* over a positive horizon
C23_Witness ==
    /\ ReturnsOk
    /\ req.amount > 0
    /\ req.horizon_months > 0
    /\ \E a2 \in Amounts : a2 > req.amount
    /\ resp.future_value.amt = req.amount

\* the comparisons of the response a risk profile finds suitable, as indexes
SuitedTo(risk_profile) ==
    {i \in 1..Len(resp.comparisons) :
        \/ risk_profile = "CONSERVATIVE"
           /\ resp.comparisons[i].risk_level \in {"LOW", "MEDIUM"}
        \/ risk_profile = "MODERATE"
        \/ risk_profile = "GROWTH"
           /\ resp.comparisons[i].risk_level \in {"MEDIUM", "HIGH"}}

\* the comparisons the recommendations are drawn from: the suitable ones,
\* or all of them when none is suitable or the profile is unknown
Pool ==
    IF SuitedTo(req.risk_profile) = {} THEN 1..Len(resp.comparisons)
    ELSE SuitedTo(req.risk_profile)

\* C24: the comparisons come back in non-increasing order of roi_percentage,
\* and the TOP_PERFORMER recommendation names the investment with the
\* highest roi_percentage among those suitable for the risk profile (among
\* all of them when none is suitable or the profile is unknown).
C24_SortedAndTopPerformer ==
    CompareOk =>
        /\ \A i \in 1..(Len(resp.comparisons) - 1) :
              ~RoiLess(resp.comparisons[i].roi_percentage,
                       resp.comparisons[i + 1].roi_percentage)
        /\ resp.recommendations # <<>>
        /\ resp.recommendations[1].type = "TOP_PERFORMER"
        /\ \E i \in Pool :
              /\ resp.comparisons[i].investment_type
                   = resp.recommendations[1].investment_type
              /\ \A j \in Pool :
                    ~RoiLess(resp.comparisons[i].roi_percentage,
                             resp.comparisons[j].roi_percentage)

\* C24 witness: a CONSERVATIVE comparison over a positive horizon whose first
\* comparison is not suitable, so the TOP_PERFORMER is a later one
C24_Witness ==
    /\ CompareOk
    /\ req.risk_profile = "CONSERVATIVE"
    /\ req.horizon_months > 0
    /\ 1 \notin Pool
    /\ resp.recommendations[1].type = "TOP_PERFORMER"
    /\ resp.recommendations[1].investment_type
         # resp.comparisons[1].investment_type

\* the investment types a recommendation names
NamedBy(rec) ==
    IF rec.type = "BALANCED" THEN DOMAIN rec.allocation
    ELSE {rec.investment_type}

\* the risk_level the response reports for an investment type
ReportedRiskLevel(t) ==
    LET i == CHOOSE k \in 1..Len(resp.comparisons) :
                 resp.comparisons[k].investment_type = t
    IN  resp.comparisons[i].risk_level

\* C29: for the risk profile CONSERVATIVE no recommendation - TOP_PERFORMER,
\* the keys of the BALANCED allocation, LONG_TERM - names an investment
\* whose risk_level is HIGH, whatever the amount, horizon and zone.
C29_ConservativeAvoidsHighRisk ==
    CompareOk /\ req.risk_profile = "CONSERVATIVE" =>
        \A r \in 1..Len(resp.recommendations) :
            \A t \in NamedBy(resp.recommendations[r]) :
                /\ \E k \in 1..Len(resp.comparisons) :
                      resp.comparisons[k].investment_type = t
                /\ ReportedRiskLevel(t) # "HIGH"
                /\ DictGet(risk_levels, t, "MEDIUM") # "HIGH"

\* C29 witness: a CONSERVATIVE comparison with a zone given, answered with
\* all three kinds of recommendation while a HIGH investment leads the
\* comparisons
C29_Witness ==
    /\ CompareOk
    /\ req.risk_profile = "CONSERVATIVE"
    /\ req.zone # None
    /\ Len(resp.recommendations) = 3
    /\ resp.recommendations[3].type = "LONG_TERM"
    /\ resp.comparisons[1].risk_level = "HIGH"

\* C30: the 'portfolios' field of the result is always a list of portfolio
\* templates, whatever text the advisory service returns, a text holding a
\* parseable JSON object included.
C30_PortfoliosIsList ==
    Returned("generate_portfolio_recommendations") =>
        resp.portfolios_type = "list"

\* C27: create_plan is all-or-nothing: whenever the request ends in the
\* failure response (success = False, status 500), a failure while creating
\* the projection included, no Plan and no Projection of that request
\* remains persisted.
C27_CreatePlanAllOrNothing ==
    Returned("create_plan") /\ resp.status = 500 /\ ~resp.success =>
        resp.rows = {}

RebalanceDone ==
    Returned("rebalance_portfolio")
    /\ \E i \in DOMAIN req.db.plans : req.db.plans[i].id = req.portfolio_id

\* the snapshots of the request's portfolio in a table
SnapshotsOfPortfolio(db) ==
    SelectSeq(db.asset_snapshots,
              LAMBDA row : row.plan_id = req.portfolio_id)

\* the allocations of the last rebalance
LastRequested ==
    resp.requested[Len(resp.requested)]

\* the snapshots the last rebalance recorded
Recorded ==
    SubSeq(resp.response.db.asset_snapshots,
           Len(resp.before.asset_snapshots) + 1,
           Len(resp.response.db.asset_snapshots))

\* C25: a rebalance emits an action and records a new snapshot at the target
\* amount for an asset type exactly when |target_amount - current_amount|
\* > 100, the action being 'BUY' when the target exceeds the current amount
\* and 'SELL' otherwise; a type within the band gets no action and no
\* snapshot, and the types the allocations do not name are left untouched.
C25_RebalanceBand ==
    RebalanceDone =>
        /\ resp.response.status = 200
        /\ LET current_snapshots == SnapshotsOfPortfolio(resp.before)
               total == total_value(current_snapshots)
               actions == resp.response.rebalance_actions
           IN  /\ \A k \in 1..Len(LastRequested) :
                     LET asset_type == LastRequested[k].asset_type
                         target ==
                            target_amount(total,
                                          LastRequested[k].target_percentage)
                         current == current_amount(current_snapshots,
                                                   asset_type)
                         outside == Abs(target - current) > 100
                     IN  /\ outside <=>
                               \E i \in 1..Len(actions) :
                                  /\ actions[i].asset_type = asset_type
                                  /\ actions[i].action
                                       = (IF target > current THEN "BUY"
                                          ELSE "SELL")
                         /\ outside <=>
                               \E i \in 1..Len(Recorded) :
                                  /\ Recorded[i].asset_type = asset_type
                                  /\ Recorded[i].amount = target
               /\ \A i \in 1..Len(Recorded) :
                     \E k \in 1..Len(LastRequested) :
                        Recorded[i].asset_type = LastRequested[k].asset_type
               /\ SubSeq(resp.response.db.asset_snapshots, 1,
                         Len(resp.before.asset_snapshots))
                    = resp.before.asset_snapshots

\* the target percentages of one rebalance add up to 100
RECURSIVE SumTargets(_)
SumTargets(new_allocations) ==
    IF new_allocations = <<>> THEN 0
    ELSE new_allocations[1].target_percentage
         + SumTargets(Tail(new_allocations))

\* C26: after any sequence of rebalances whose target allocations sum to
\* 100, the portfolio's total value - the sum of its snapshot amounts -
\* equals its total value before the first rebalance, and each asset type's
\* current amount equals its last target amount.
C26_RebalanceConservesValue ==
    RebalanceDone
    /\ (\A n \in 1..Len(resp.requested) : SumTargets(resp.requested[n]) = 100)
    =>  /\ resp.response.status = 200
        /\ LET now == SnapshotsOfPortfolio(resp.response.db)
               first == SnapshotsOfPortfolio(req.db)
           IN  /\ total_value(now) = total_value(first)
               /\ \A k \in 1..Len(LastRequested) :
                     current_amount(now, LastRequested[k].asset_type)
                       = target_amount(total_value(first),
                                       LastRequested[k].target_percentage)

\* C28: the risk tiers of the per-portfolio and the overall analysis agree:
\* for a user with exactly one portfolio the overall_risk level of
\* get_risk_analysis is the risk_level calculate_portfolio_risk gave that
\* portfolio, for every risk score, 30 and 70 included.  The second part
\* states it for every portfolio calculate_portfolio_risk is called with.
C28_TiersConsistent ==
    /\ Returned("get_risk_analysis")
       /\ Len(filter_by(PlanColumns, req.db.plans, "user_id",
                        req.user_id).rows) = 1
       => /\ resp.status = 200
          /\ resp.overall_risk.level = resp.portfolio_risks[1].risk_level
    /\ RiskOk => overall_risk(<<resp>>).level = resp.risk_level

====
